---- MODULE Spec2Model ----
(***************************************************************************)
(* Measurement acquisition of PythonApp/gui_app.py (MedMove Diagnostics):  *)
(* the serial command / timed polling / final-angle extraction machinery   *)
(* of class App, and the ROM aggregation of class ROMCalculator.           *)
(*                                                                         *)
(* Encoding.  A Python Optional is a sequence of length <= 1: <<>> is      *)
(* None (or the empty Entry text ""), <<x>> is the value x.  An angle is   *)
(* an integer number of hundredths of a degree (4237 is 42.37).  The text  *)
(* of an angle Entry is "" or a number printed with one decimal; the       *)
(* printed number is kept as its integer number of tenths (<<424>> is the  *)
(* text "42.4").  A serial line is a sequence of tokens; the response      *)
(* text is the sequence of the lines read so far.                          *)
(***************************************************************************)
EXTENDS Integers, Sequences, FiniteSets, TLC

\* ---------------------------------------------------------------- bounds
MaxEvents == 5      \* button presses and device lines in one run
MaxLiveEvents == 4  \* the same, in the runs checked for liveness
TimeStep == 3500    \* granularity of the wall clock, in ms
MaxLines == 3       \* lines of a response text drawn as a whole
MaxStoreEvents == 3 \* events in the runs from a connected, selected program

\* ------------------------------------------------------ program constants
serial_read_duration == 7000

None == <<>>
Some(x) == <<x>>

Sides == {"unaffected", "affected"}
Indices == 0 .. 7

\* self.movements: (name, letter) of the eight movements, index 0..7
movements ==
    << <<"Wrist Flexion", "f">>, <<"Wrist Extension", "e">>,
       <<"Forearm Supination", "s">>, <<"Forearm Pronation", "p">>,
       <<"Elbow Flexion", "x">>, <<"Elbow Extension", "y">>,
       <<"Radial Deviation", "z">>, <<"Ulnar Deviation", "z">> >>

\* mutant of LetterOf: Ulnar Deviation has a letter of its own
LetterOfDistinct(idx) == IF idx = 7 THEN "u" ELSE movements[idx + 1][2]

LetterOf(idx) == movements[idx + 1][2]

\* ------------------------------------------------------------ serial text
Marker == [t |-> "marker", v |-> 0]      \* the literal ANGLE:
Junk == [t |-> "junk", v |-> 0]          \* text that is no number
Num(v) == [t |-> "num", v |-> v]         \* a decimal number

\* readings the device may report, hundredths of a degree: final angles
\* (42.37 and 12.0; none ends in a 5, where the rounding of f"{v:.1f}" turns
\* on the binary value) and one live angle (93.5)
AngleValues == {4237, 1200}
LiveValues == {9350}

\* the lines the device streams: noise, a bare number, ANGLE:<v>, ANGLE:<junk>
DeviceLines ==
    { <<Junk>>, <<Marker, Junk>> }
      \cup { <<Num(v)>> : v \in LiveValues }
      \cup { <<Marker, Num(v)>> : v \in AngleValues }

\* the (index, side) buttons pressed in a run: a movement below and two
\* above index 4, the two deviations on one side
Buttons == { <<0, "unaffected">>, <<6, "affected">>, <<7, "affected">> }

\* float(text): the number, or None for ValueError
FloatOf(text) ==
    IF Len(text) = 1 /\ text[1].t = "num" THEN Some(text[1].v) ELSE None

\* mutant of Format1: the decimals after the first are cut off
Format1Truncating(v) == Some(v \div 10)

\* mutant of Format1: the angle is clamped to 0..180 before it is printed
Format1Clamped(v) ==
    Some(((IF v < 0 THEN 0 ELSE IF v > 18000 THEN 18000 ELSE v) + 5) \div 10)

\* f"{v:.1f}": v printed with one decimal (the nearest tenth)
Format1(v) == Some((v + 5) \div 10)

\* ROMCalculator.safe_float on the text of an Entry
safe_float(text) == IF text = None THEN 0 ELSE text[1] * 10

\* ---------------------------------------------------------- Angle Parser
\* "ANGLE:" in line
HasMarker(line) == \E i \in DOMAIN line : line[i] = Marker

\* line.split("ANGLE:")[1].strip(): the text between the first marker and
\* the next one (or the end of the line)
AfterMarker(line) ==
    LET p == CHOOSE i \in DOMAIN line :
                 line[i] = Marker /\ \A j \in 1 .. (i - 1) : line[j] # Marker
        later == { j \in (p + 1) .. Len(line) : line[j] = Marker }
        q == IF later = {} THEN Len(line) + 1
             ELSE CHOOSE j \in later : \A k \in later : j <= k
    IN SubSeq(line, p + 1, q - 1)

\* text.strip().split("\n") on the response: leading and trailing empty
\* lines are dropped, and the empty text splits into one empty line
RECURSIVE DropLeadingEmpty(_)
DropLeadingEmpty(ls) ==
    IF ls # <<>> /\ Head(ls) = <<>> THEN DropLeadingEmpty(Tail(ls)) ELSE ls

RECURSIVE DropTrailingEmpty(_)
DropTrailingEmpty(ls) ==
    IF ls # <<>> /\ ls[Len(ls)] = <<>>
    THEN DropTrailingEmpty(SubSeq(ls, 1, Len(ls) - 1)) ELSE ls

StripSplit(response) ==
    LET ls == DropTrailingEmpty(DropLeadingEmpty(response))
    IN IF ls = <<>> THEN << <<>> >> ELSE ls

\* mutant of ScanReversed: a marked line whose number does not parse ends
\* the scan
RECURSIVE ScanReversedStopping(_, _)
ScanReversedStopping(lines, i) ==
    IF i = 0 THEN None
    ELSE IF HasMarker(lines[i])
         THEN FloatOf(AfterMarker(lines[i]))
         ELSE ScanReversedStopping(lines, i - 1)

\* the loop "for line in reversed(lines)" of process_final_serial_data,
\* entered at line i: the first line, going backwards, that holds the marker
\* and a parseable number after it; a marked line whose number does not parse
\* is skipped (continue)
RECURSIVE ScanReversed(_, _)
ScanReversed(lines, i) ==
    IF i = 0 THEN None
    ELSE IF HasMarker(lines[i]) /\ FloatOf(AfterMarker(lines[i])) # None
         THEN FloatOf(AfterMarker(lines[i]))
         ELSE ScanReversed(lines, i - 1)

\* mutant of ParseFinal: the lines are scanned first to last
RECURSIVE ScanForward(_, _)
ScanForward(lines, i) ==
    IF i > Len(lines) THEN None
    ELSE IF HasMarker(lines[i]) /\ FloatOf(AfterMarker(lines[i])) # None
         THEN FloatOf(AfterMarker(lines[i]))
         ELSE ScanForward(lines, i + 1)
ParseFinalFirstWins(response) == ScanForward(StripSplit(response), 1)

\* last_valid_angle of process_final_serial_data
ParseFinal(response) ==
    LET lines == StripSplit(response) IN ScanReversed(lines, Len(lines))

\* mutant of LiveAfter: the first line that is no number ends the tick's
\* processing
RECURSIVE LiveAfterAborting(_, _)
LiveAfterAborting(live, lines) ==
    IF lines = <<>> THEN live
    ELSE IF FloatOf(Head(lines)) = None THEN live
    ELSE LiveAfterAborting(FloatOf(Head(lines)), Tail(lines))

\* the angle shown on the live canvas after the lines of one tick:
\* every line that is a bare number calls update_live_angle
RECURSIVE LiveAfter(_, _)
LiveAfter(live, lines) ==
    IF lines = <<>> THEN live
    ELSE LiveAfter(IF FloatOf(Head(lines)) # None THEN FloatOf(Head(lines))
                   ELSE live,
                   Tail(lines))

\* mutant of calculate_rom_side: the elbow is summed like the other groups
calculate_rom_side_summing(entries_list) ==
    [ wrist |-> safe_float(entries_list[0]) + safe_float(entries_list[1]),
      forearm |-> safe_float(entries_list[2]) + safe_float(entries_list[3]),
      elbow |-> safe_float(entries_list[4]) + safe_float(entries_list[5]),
      wrist_deviation |-> safe_float(entries_list[6]) + safe_float(entries_list[7]) ]

\* ----------------------------------------------------------- ROM Aggregator
calculate_rom_side(entries_list) ==
    [ wrist |-> safe_float(entries_list[0]) + safe_float(entries_list[1]),
      forearm |-> safe_float(entries_list[2]) + safe_float(entries_list[3]),
      elbow |-> (safe_float(entries_list[4]) + safe_float(entries_list[5])) \div 2,
      wrist_deviation |-> safe_float(entries_list[6]) + safe_float(entries_list[7]) ]

\* the four gauges of one side as update_rom_display draws them
RomGauges(entries_list) ==
    LET roms == calculate_rom_side(entries_list)
    IN [ k \in 0 .. 3 |->
           CASE k = 0 -> roms.wrist
             [] k = 1 -> roms.forearm
             [] k = 2 -> roms.elbow
             [] k = 3 -> roms.wrist_deviation ]

\* --------------------------------------------------------------- state
VARIABLES
    ser,                        \* self.ser: "None" or the state of the channel
    in_waiting,                 \* lines in the channel's inbound buffer
    movement_letter,            \* Optional letter
    selected_movement,          \* Optional index
    selected_side,              \* Optional side
    serial_read_start_time,     \* Optional time, ms
    serial_full_response,       \* lines accumulated by read_serial_live
    serial_read_mode,           \* "measurement" or "calibration"
    unaffected_angle_entries,   \* [0..7 -> Entry text]
    affected_angle_entries,     \* [0..7 -> Entry text]
    unaffected_rom_canvases,    \* [0..3 -> angle drawn on the gauge]
    affected_rom_canvases,      \* [0..3 -> angle drawn on the gauge]
    live_angle,                 \* Optional angle drawn on live_canvas
    last_error,                 \* kind of the last messagebox.showerror
    now,                        \* time.time(), ms
    after_queue,                \* pending self.after(50, read_serial_live)
                                \* callbacks, each named by the session whose
                                \* start made the first call of its chain
    session_log,                \* one record per command byte written
    final_log,                  \* one record per run of
                                \* process_final_serial_data
    n_events                    \* button presses and device lines so far

vars ==
    << ser, in_waiting, movement_letter, selected_movement, selected_side,
       serial_read_start_time, serial_full_response, serial_read_mode,
       unaffected_angle_entries, affected_angle_entries,
       unaffected_rom_canvases, affected_rom_canvases, live_angle,
       last_error, now, after_queue, session_log, final_log, n_events >>

selection == << movement_letter, selected_movement, selected_side >>
session_state ==
    << serial_read_start_time, serial_full_response, serial_read_mode >>
entries == << unaffected_angle_entries, affected_angle_entries >>
canvases == << unaffected_rom_canvases, affected_rom_canvases >>

\* number of the session in force: accepted start / redo / calibrate so far
session == Len(session_log)

Init ==
    /\ ser = "None"
    /\ in_waiting = <<>>
    /\ movement_letter = None
    /\ selected_movement = None
    /\ selected_side = None
    /\ serial_read_start_time = None
    /\ serial_full_response = <<>>
    /\ serial_read_mode = "measurement"
    /\ unaffected_angle_entries = [i \in Indices |-> None]
    /\ affected_angle_entries = [i \in Indices |-> None]
    /\ unaffected_rom_canvases = [k \in 0 .. 3 |-> 0]
    /\ affected_rom_canvases = [k \in 0 .. 3 |-> 0]
    /\ live_angle = None
    /\ last_error = "none"
    /\ now = 0
    /\ after_queue = {}
    /\ session_log = <<>>
    /\ final_log = <<>>
    /\ n_events = 0

\* one more button press or device line
Event == n_events < MaxEvents /\ n_events' = n_events + 1

\* ------------------------------------------------------------ conditions
\* mutant of NotConnected: a missing channel object passes the check
NotConnectedUnlessNone(s) == s # "None" /\ s # "open"

\* "self.ser is None or not self.ser.is_open"
NotConnected(s) == s = "None" \/ s # "open"

\* mutant of NoSelection: the selection is not checked
NoSelectionUnchecked(letter, movement, side) == FALSE

\* "movement_letter is None or selected_movement is None or selected_side
\* is None"
NoSelection(letter, movement, side) ==
    letter = None \/ movement = None \/ side = None

\* mutant of DeadlineReached: the window must be exceeded, not reached
DeadlineReachedLate(start_time) == now - start_time[1] > serial_read_duration

\* "(time.time() - self.serial_read_start_time) * 1000 >= serial_read_duration"
DeadlineReached(start_time) == now - start_time[1] >= serial_read_duration

\* mutant of FinalizeOnDeadline: the mode is not looked at
FinalizeInEveryMode(mode) == TRUE

\* "if self.serial_read_mode == 'measurement'" of the timer check
FinalizeOnDeadline(mode) == mode = "measurement"

\* ------------------------------------------------------------- finalize
\* mutant of EntriesAfterFinal: a failed finalize empties the Entry
EntriesAfterFinalClearing(entries_list, idx, angle) ==
    IF angle = None THEN [entries_list EXCEPT ![idx] = None]
    ELSE [entries_list EXCEPT ![idx] = Format1(angle[1])]

\* mutant of EntriesAfterFinal: the angle is added to what the Entry holds
EntriesAfterFinalAdding(entries_list, idx, angle) ==
    IF angle = None THEN entries_list
    ELSE [entries_list EXCEPT
            ![idx] = Some(safe_float(entries_list[idx]) \div 10
                          + Format1(angle[1])[1])]

\* one side's Entry list after lines 209-223 of process_final_serial_data:
\* nothing is written without a valid angle, else the Entry of the selected
\* movement is replaced by the angle printed with one decimal
EntriesAfterFinal(entries_list, idx, angle) ==
    IF angle = None THEN entries_list
    ELSE [entries_list EXCEPT ![idx] = Format1(angle[1])]

\* process_final_serial_data, run by the tick of chain `chain` on the
\* response text; `live` is the live angle left by the tick's own lines
process_final_serial_data(chain, response, live) ==
    LET angle == ParseFinal(response)
        unaff == IF selected_side = Some("unaffected")
                 THEN EntriesAfterFinal(unaffected_angle_entries,
                                        selected_movement[1], angle)
                 ELSE unaffected_angle_entries
        aff == IF selected_side = Some("affected")
               THEN EntriesAfterFinal(affected_angle_entries,
                                      selected_movement[1], angle)
               ELSE affected_angle_entries
    IN /\ final_log' = Append(final_log,
                              [chain |-> chain, session |-> session',
                               angle |-> angle])
       /\ unaffected_angle_entries' = unaff
       /\ affected_angle_entries' = aff
       /\ IF angle = None
          THEN /\ last_error' = "NoAngleData"
               /\ live_angle' = live
               /\ UNCHANGED canvases
          ELSE IF selected_side = None
          THEN /\ live_angle' = live
               /\ UNCHANGED << last_error, canvases >>
          ELSE /\ unaffected_rom_canvases' = RomGauges(unaff)
               /\ affected_rom_canvases' = RomGauges(aff)
               /\ live_angle' = angle
               /\ UNCHANGED last_error

\* ------------------------------------------------------------ polling tick
\* read_serial_live, as the callback of chain `chain` (or as the direct call
\* that starts the chain), on the session fields start_time, response and
\* mode and the inbound lines `inbound` as they are when it is entered
ReadSerialLive(chain, start_time, response, inbound, mode) ==
    IF NotConnected(ser)
    THEN /\ after_queue' = after_queue \ {chain}
         /\ in_waiting' = inbound
         /\ serial_full_response' = response
         /\ UNCHANGED << entries, canvases, live_angle, last_error, final_log >>
    ELSE LET drained == response \o inbound
             live == LiveAfter(live_angle, inbound)
         IN /\ in_waiting' = <<>>
            /\ serial_full_response' = drained
            /\ IF DeadlineReached(start_time)
               THEN /\ after_queue' = after_queue \ {chain}
                    /\ IF FinalizeOnDeadline(mode)
                       THEN process_final_serial_data(chain, drained, live)
                       ELSE /\ live_angle' = live
                            /\ UNCHANGED << entries, canvases, last_error,
                                            final_log >>
               ELSE /\ after_queue' = after_queue \cup {chain}
                    /\ live_angle' = live
                    /\ UNCHANGED << entries, canvases, last_error, final_log >>

\* a pending after() callback fires
read_serial_live(chain) ==
    /\ chain \in after_queue
    /\ UNCHANGED << ser, selection, serial_read_start_time, serial_read_mode,
                    now, session_log, n_events >>
    /\ ReadSerialLive(chain, serial_read_start_time, serial_full_response,
                      in_waiting, serial_read_mode)

\* ------------------------------------------------------------ user actions
connect_bluetooth(ok) ==
    /\ Event
    /\ IF ok
       THEN /\ ser' = "open"
            /\ in_waiting' = <<>>
            /\ UNCHANGED last_error
       ELSE /\ last_error' = "ConnectionError"
            /\ UNCHANGED << ser, in_waiting >>
    /\ UNCHANGED << selection, session_state, entries, canvases, live_angle,
                    now, after_queue, session_log, final_log >>

select_movement(letter, idx, side) ==
    /\ Event
    /\ movement_letter' = Some(letter)
    /\ selected_movement' = Some(idx)
    /\ selected_side' = Some(side)
    /\ UNCHANGED << ser, in_waiting, session_state, entries, canvases,
                    live_angle, last_error, now, after_queue, session_log,
                    final_log >>

\* mutant of Arm: the response text and the inbound lines are kept
ArmKeepingBuffer(byte, mode) ==
    /\ Event
    /\ session_log' = Append(session_log,
                             [byte |-> byte, mode |-> mode,
                              movement |-> selected_movement,
                              side |-> selected_side])
    /\ serial_read_start_time' = Some(now)
    /\ serial_read_mode' = mode
    /\ ReadSerialLive(session', Some(now), serial_full_response, in_waiting,
                      mode)
    /\ UNCHANGED << ser, selection, now >>

\* lines 496-513, shared with calibrate (lines 279-291): reset the inbound
\* buffer, write one byte, set the session fields, make the first call of
\* read_serial_live
Arm(byte, mode) ==
    /\ Event
    /\ session_log' = Append(session_log,
                             [byte |-> byte, mode |-> mode,
                              movement |-> selected_movement,
                              side |-> selected_side])
    /\ serial_read_start_time' = Some(now)
    /\ serial_read_mode' = mode
    /\ ReadSerialLive(session', Some(now), <<>>, <<>>, mode)
    /\ UNCHANGED << ser, selection, now >>

\* mutant of Refuse: the command byte is written although the call is refused
RefuseWriting(kind) ==
    /\ Event
    /\ last_error' = kind
    /\ session_log' = Append(session_log,
                             [byte |-> movement_letter, mode |-> "measurement",
                              movement |-> selected_movement,
                              side |-> selected_side])
    /\ UNCHANGED << ser, in_waiting, selection, session_state, entries,
                    canvases, live_angle, now, after_queue, final_log >>

Refuse(kind) ==
    /\ Event
    /\ last_error' = kind
    /\ UNCHANGED << ser, in_waiting, selection, session_state, entries,
                    canvases, live_angle, now, after_queue, session_log,
                    final_log >>

start_measurement ==
    IF NotConnected(ser) THEN Refuse("NotConnected")
    ELSE IF NoSelection(movement_letter, selected_movement, selected_side)
    THEN Refuse("NoSelection")
    ELSE Arm(movement_letter, "measurement")

redo_last_measurement ==
    IF movement_letter = None THEN Refuse("NoPriorMovement")
    ELSE start_measurement

calibrate ==
    IF NotConnected(ser) THEN Refuse("NotConnected")
    ELSE Arm(Some("r"), "calibration")

\* zip(entries, canvases) of clear_all_measurements stops at the shorter list
ZipLength(entries_list, canvas_list) ==
    IF Cardinality(DOMAIN entries_list) <= Cardinality(DOMAIN canvas_list)
    THEN Cardinality(DOMAIN entries_list)
    ELSE Cardinality(DOMAIN canvas_list)

\* one side's Entry list and gauges after the loop of clear_all_measurements
ClearedEntries(entries_list, canvas_list) ==
    [ i \in DOMAIN entries_list |->
        IF i < ZipLength(entries_list, canvas_list) THEN None
        ELSE entries_list[i] ]

ClearedCanvases(entries_list, canvas_list) ==
    [ k \in DOMAIN canvas_list |->
        IF k < ZipLength(entries_list, canvas_list) THEN 0
        ELSE canvas_list[k] ]

\* mutant of clear_all_measurements: the response text is emptied as well
clear_all_resetting_response ==
    /\ unaffected_angle_entries' =
           ClearedEntries(unaffected_angle_entries, unaffected_rom_canvases)
    /\ unaffected_rom_canvases' =
           ClearedCanvases(unaffected_angle_entries, unaffected_rom_canvases)
    /\ affected_angle_entries' =
           ClearedEntries(affected_angle_entries, affected_rom_canvases)
    /\ affected_rom_canvases' =
           ClearedCanvases(affected_angle_entries, affected_rom_canvases)
    /\ live_angle' = Some(0)
    /\ Event
    /\ serial_full_response' = <<>>
    /\ UNCHANGED << ser, in_waiting, selection, serial_read_start_time,
                    serial_read_mode, last_error, now, after_queue,
                    session_log, final_log >>

clear_all_measurements ==
    /\ unaffected_angle_entries' =
           ClearedEntries(unaffected_angle_entries, unaffected_rom_canvases)
    /\ unaffected_rom_canvases' =
           ClearedCanvases(unaffected_angle_entries, unaffected_rom_canvases)
    /\ affected_angle_entries' =
           ClearedEntries(affected_angle_entries, affected_rom_canvases)
    /\ affected_rom_canvases' =
           ClearedCanvases(affected_angle_entries, affected_rom_canvases)
    /\ live_angle' = Some(0)
    /\ Event
    /\ UNCHANGED << ser, in_waiting, selection, session_state, last_error,
                    now, after_queue, session_log, final_log >>

\* ------------------------------------------------------------ environment
\* the device streams one more line into the open channel
DeviceSend(line) ==
    /\ ser = "open"
    /\ Event
    /\ in_waiting' = Append(in_waiting, line)
    /\ UNCHANGED << ser, selection, session_state, entries, canvases,
                    live_angle, last_error, now, after_queue, session_log,
                    final_log >>

\* the wall clock advances; once the read window of the session in force has
\* elapsed every later reading of the clock compares the same way
Advance ==
    /\ serial_read_start_time # None
    /\ now - serial_read_start_time[1] < serial_read_duration
    /\ now' = now + TimeStep
    /\ UNCHANGED << ser, in_waiting, selection, session_state, entries,
                    canvases, live_angle, last_error, after_queue,
                    session_log, final_log, n_events >>

Connect == \E ok \in BOOLEAN : connect_bluetooth(ok)
Select == \E b \in Buttons : select_movement(LetterOf(b[1]), b[1], b[2])
Tick == \E chain \in after_queue : read_serial_live(chain)
Device == \E line \in DeviceLines : DeviceSend(line)

Next ==
    \/ Connect
    \/ Select
    \/ start_measurement
    \/ redo_last_measurement
    \/ calibrate
    \/ clear_all_measurements
    \/ Tick
    \/ Device
    \/ Advance

Spec == Init /\ [][Next]_vars

\* the Tk main loop runs every due after() callback, and time passes
LiveBudget == n_events' <= MaxLiveEvents
LiveNext ==
    \/ Connect /\ LiveBudget
    \/ Select /\ LiveBudget
    \/ start_measurement /\ LiveBudget
    \/ redo_last_measurement /\ LiveBudget
    \/ calibrate /\ LiveBudget
    \/ clear_all_measurements /\ LiveBudget
    \/ Tick
    \/ Device /\ LiveBudget
    \/ Advance
LiveSpec ==
    Init /\ [][LiveNext]_vars /\ WF_vars(Tick) /\ WF_vars(Advance)

\* ------------------------------------------------- one session, any buffer
\* final angles outside 0..180: -5.04 and 185.6
WideAngleValues == {-504, 18560}

\* the lines of DeviceLines, the empty line, ANGLE:<v> for the wide values
ParseLines ==
    DeviceLines \cup { <<>> }
      \cup { <<Marker, Num(v)>> : v \in WideAngleValues }

\* every text of at most MaxLines lines
Buffers == UNION { [1 .. n -> ParseLines] : n \in 0 .. MaxLines }

\* the state start_measurement leaves (channel open, a button selected, the
\* byte written, the session fields set, the first call of read_serial_live
\* made), with the lines the device has streamed since in the inbound buffer;
\* the logs and the event count start here
ParseInit ==
    /\ ser = "open"
    /\ in_waiting \in Buffers
    /\ \E b \in Buttons :
           /\ movement_letter = Some(LetterOf(b[1]))
           /\ selected_movement = Some(b[1])
           /\ selected_side = Some(b[2])
    /\ serial_read_start_time = Some(0)
    /\ serial_full_response = <<>>
    /\ serial_read_mode = "measurement"
    /\ unaffected_angle_entries = [i \in Indices |-> None]
    /\ affected_angle_entries = [i \in Indices |-> None]
    /\ unaffected_rom_canvases = [k \in 0 .. 3 |-> 0]
    /\ affected_rom_canvases = [k \in 0 .. 3 |-> 0]
    /\ live_angle = None
    /\ last_error = "none"
    /\ now = 0
    /\ after_queue = {1}
    /\ session_log = << [byte |-> movement_letter, mode |-> "measurement",
                         movement |-> selected_movement,
                         side |-> selected_side] >>
    /\ final_log = <<>>
    /\ n_events = 0

\* the session runs to its deadline with no further input
ParseNext ==
    \/ Tick
    \/ Advance

ParseSpec == ParseInit /\ [][ParseNext]_vars

\* --------------------------------------------- one finalize, any Entry list
\* a full set of recorded angles: 30, 40, 10, 20, 60, 80, 5, 15
ExampleEntries ==
    [ i \in Indices |->
        Some(CASE i = 0 -> 300 [] i = 1 -> 400 [] i = 2 -> 100 [] i = 3 -> 200
               [] i = 4 -> 600 [] i = 5 -> 800 [] i = 6 -> 50 [] i = 7 -> 150) ]

\* Entry lists: each Entry empty, as in ExampleEntries, or "-12.5"
EntryLists ==
    { [ i \in Indices |->
          CASE c[i] = 0 -> None
            [] c[i] = 1 -> ExampleEntries[i]
            [] c[i] = 2 -> Some(-125) ] : c \in [Indices -> 0 .. 2] }

\* a measurement of Radial Deviation, affected side, at its deadline with
\* ANGLE:42.37 in the inbound buffer, after earlier measurements have left
\* any Entry list on the unaffected side and none or the full example on the
\* affected side, the gauges drawn from them; the logs and the event count
\* start here
RomInit ==
    /\ ser = "open"
    /\ in_waiting = << <<Marker, Num(4237)>> >>
    /\ movement_letter = Some(LetterOf(6))
    /\ selected_movement = Some(6)
    /\ selected_side = Some("affected")
    /\ serial_read_start_time = Some(0)
    /\ serial_full_response = <<>>
    /\ serial_read_mode = "measurement"
    /\ unaffected_angle_entries \in EntryLists
    /\ affected_angle_entries \in { [i \in Indices |-> None], ExampleEntries }
    /\ unaffected_rom_canvases = RomGauges(unaffected_angle_entries)
    /\ affected_rom_canvases = RomGauges(affected_angle_entries)
    /\ live_angle = None
    /\ last_error = "none"
    /\ now = serial_read_duration
    /\ after_queue = {1}
    /\ session_log = << [byte |-> movement_letter, mode |-> "measurement",
                         movement |-> selected_movement,
                         side |-> selected_side] >>
    /\ final_log = <<>>
    /\ n_events = 0

RomSpec == RomInit /\ [][Tick]_vars

\* ------------------------------------- from a connected, selected program
\* the state after connect and the press of any of the 8 movement buttons of
\* the unaffected side, the Entry of that button holding "30.0" from an
\* earlier measurement (the gauges drawn from it), every other Entry empty
\* and no session running; the logs and the event count start here
StoreInit ==
    /\ ser = "open"
    /\ in_waiting = <<>>
    /\ \E idx \in Indices :
           /\ movement_letter = Some(LetterOf(idx))
           /\ selected_movement = Some(idx)
           /\ selected_side = Some("unaffected")
           /\ unaffected_angle_entries =
                  [i \in Indices |-> IF i = idx THEN Some(300) ELSE None]
    /\ affected_angle_entries = [i \in Indices |-> None]
    /\ serial_read_start_time = None
    /\ serial_full_response = <<>>
    /\ serial_read_mode = "measurement"
    /\ unaffected_rom_canvases = RomGauges(unaffected_angle_entries)
    /\ affected_rom_canvases = RomGauges(affected_angle_entries)
    /\ live_angle = None
    /\ last_error = "none"
    /\ now = 0
    /\ after_queue = {}
    /\ session_log = <<>>
    /\ final_log = <<>>
    /\ n_events = 0

StoreBudget == n_events' <= MaxStoreEvents
StoreNext ==
    \/ Connect /\ StoreBudget
    \/ Select /\ StoreBudget
    \/ start_measurement /\ StoreBudget
    \/ redo_last_measurement /\ StoreBudget
    \/ calibrate /\ StoreBudget
    \/ clear_all_measurements /\ StoreBudget
    \/ Tick
    \/ Device /\ StoreBudget
    \/ Advance
StoreSpec == StoreInit /\ [][StoreNext]_vars

\* ================================================================ claims
\* the text of slot (side, i) in a pair of Entry lists
Slot(unaff, aff, side, i) == IF side = "unaffected" THEN unaff[i] ELSE aff[i]

\* this step ran process_final_serial_data
FinalizeRan == Len(final_log') = Len(final_log) + 1
\* ... and it found this angle (None: no valid ANGLE data)
FinalAngle == final_log'[Len(final_log')].angle

\* the movement index and side the session in force was started with
StartedIdx == session_log[session].movement[1]
StartedSide == session_log[session].side[1]

\* C1 (as claimed): generation guard.  Every run of finalize is made by a
\* tick of the session in force: a tick scheduled by a session that a later
\* start, redo or calibrate superseded never runs finalize, so it never
\* writes a slot or fires on_final_angle.
C1_GenerationGuard ==
    \A i \in DOMAIN final_log : final_log[i].chain = final_log[i].session

\* C2 (as claimed): at most one polling tick is pending in the scheduler.
C2_OnePendingTick == Cardinality(after_queue) <= 1

\* C3 (as claimed): clear-all leaves every one of the 16 slots unset, so the
\* ROM recomputed from the slots is zero on both sides.
C3_ClearAllResetsAll ==
    [][ clear_all_measurements =>
          /\ \A side \in Sides, i \in Indices :
                 Slot(unaffected_angle_entries', affected_angle_entries',
                      side, i) = None
          /\ \A k \in 0 .. 3 :
                 /\ RomGauges(unaffected_angle_entries')[k] = 0
                 /\ RomGauges(affected_angle_entries')[k] = 0 ]_vars

\* C4 (as claimed): a finalize that finds a value writes the slot of the
\* movement and side the session was started with, and leaves the 15 other
\* slots as they were.
C4_SlotOfSessionStart ==
    [][ (FinalizeRan /\ FinalAngle # None) =>
          /\ Slot(unaffected_angle_entries', affected_angle_entries',
                  StartedSide, StartedIdx) # None
          /\ \A side \in Sides, i \in Indices :
                 << side, i >> # << StartedSide, StartedIdx >> =>
                     Slot(unaffected_angle_entries', affected_angle_entries',
                          side, i)
                       = Slot(unaffected_angle_entries,
                              affected_angle_entries, side, i) ]_vars

\* a single uninterrupted measurement session is about to end: the only
\* pending tick is its own, no finalize has run since it started, and the
\* selection is the one it was started with
SingleSession ==
    /\ session >= 1
    /\ after_queue = {session}
    /\ \A i \in DOMAIN final_log : final_log[i].session # session
    /\ selected_movement = session_log[session].movement
    /\ selected_side = session_log[session].side

\* the finalize step of such a session that found the angle v
EndToEndStep == SingleSession /\ FinalizeRan /\ FinalAngle # None

\* the text that step leaves in the slot the session was started for
EndToEndSlot ==
    Slot(unaffected_angle_entries', affected_angle_entries',
         StartedSide, StartedIdx)

\* v is the number of a streamed line ANGLE:<v>, on_final_angle fired once
\* for the session, with v, no tick is left pending, and the ROM gauges of
\* both sides are the ROM computed from the updated slots
EndToEndRest ==
    /\ \E i \in DOMAIN serial_full_response' :
           serial_full_response'[i] = << Marker, Num(FinalAngle[1]) >>
    /\ EndToEndSlot # None
    /\ live_angle' = FinalAngle
    /\ Cardinality({ i \in DOMAIN final_log' :
                       final_log'[i].session = session }) = 1
    /\ after_queue' = {}
    /\ unaffected_rom_canvases' = RomGauges(unaffected_angle_entries')
    /\ affected_rom_canvases' = RomGauges(affected_angle_entries')

\* C5 (as claimed): a single uninterrupted measurement session whose last
\* valid line is ANGLE:<v> ends with the slot of its movement and side holding
\* exactly v, on_final_angle fired once and the ROM gauges recomputed.
C5_SlotHoldsExactValue ==
    [][ EndToEndStep =>
          (EndToEndRest /\ safe_float(EndToEndSlot) = FinalAngle[1]) ]_vars

\* C5 (amended): a single uninterrupted measurement session whose last
\* valid line is ANGLE:<v> ends with the slot of its movement and side holding
\* v rounded to one decimal place (within 0.05 of v), on_final_angle fired
\* once, with v, no tick left pending, and the ROM gauges of both sides equal
\* to the ROM computed from the updated slots.
C5_EndToEnd ==
    [][ EndToEndStep =>
          ( /\ EndToEndRest
            /\ safe_float(EndToEndSlot) - FinalAngle[1] \in -5 .. 5 ) ]_vars

\* C5 witness: Wrist Flexion, unaffected; the device streamed noise and then
\* ANGLE:42.37; the one session has ended with the slot at 42.4 and wrist ROM
\* 42.4
C5_Witness ==
    /\ session = 1
    /\ session_log[1].movement = Some(0)
    /\ session_log[1].side = Some("unaffected")
    /\ serial_full_response = << <<Junk>>, <<Marker, Num(4237)>> >>
    /\ final_log = << [chain |-> 1, session |-> 1, angle |-> Some(4237)] >>
    /\ after_queue = {}
    /\ unaffected_angle_entries[0] = Some(424)
    /\ unaffected_rom_canvases[0] = 4240

\* C6: a finalize that finds no final angle reports NoAngleData and writes no
\* slot, and neither the start of a session nor a polling tick that does not
\* finalize with a value changes any of the 16 slots: a value recorded before
\* the session is still there when it aborts.
C6_NoAngleNoWrite ==
    [][ /\ (FinalizeRan /\ FinalAngle = None) =>
               /\ last_error' = "NoAngleData"
               /\ UNCHANGED << entries, canvases >>
        /\ ((Tick \/ start_measurement \/ redo_last_measurement)
              /\ ~(FinalizeRan /\ FinalAngle # None)) =>
               UNCHANGED entries ]_vars

\* C6 witness: a session has aborted with NoAngleData while the slot of its
\* movement and side held a value recorded earlier, and still holds it
C6_Witness ==
    /\ Len(final_log) >= 2
    /\ final_log[Len(final_log)].angle = None
    /\ final_log[Len(final_log)].chain = session
    /\ last_error = "NoAngleData"
    /\ after_queue = {}
    /\ selected_side # None
    /\ Slot(unaffected_angle_entries, affected_angle_entries,
            selected_side[1], selected_movement[1]) # None

\* C7: with the channel open, every tick that runs once the read window has
\* elapsed ends its chain: it schedules no further tick, a measurement runs
\* finalize, and a measurement to which the device never sent a line ends
\* with NoAngleData; and whenever a tick is pending, eventually none is.
C7_Terminates ==
    /\ [][ \A c \in after_queue :
             ( /\ read_serial_live(c)
               /\ ser = "open"
               /\ now - serial_read_start_time[1] >= serial_read_duration ) =>
                 /\ after_queue' = after_queue \ {c}
                 /\ serial_read_mode = "measurement" => FinalizeRan
                 /\ serial_read_mode = "calibration" => UNCHANGED final_log
                 /\ ( serial_read_mode = "measurement"
                      /\ serial_full_response' = <<>> ) =>
                        last_error' = "NoAngleData" ]_vars
    /\ (after_queue # {}) ~> (after_queue = {})

\* C7 witness: a measurement session to which the device sent nothing has
\* ended at its deadline with NoAngleData, no tick pending
C7_Witness ==
    /\ session = 1
    /\ serial_read_mode = "measurement"
    /\ now - serial_read_start_time[1] >= serial_read_duration
    /\ serial_full_response = <<>>
    /\ in_waiting = <<>>
    /\ after_queue = {}
    /\ last_error = "NoAngleData"
    /\ final_log = << [chain |-> 1, session |-> 1, angle |-> None] >>

\* C8: an accepted calibrate writes the byte r whatever is selected and
\* changes no slot, and no tick that runs in calibration mode runs finalize
\* or changes a slot or a ROM gauge, whatever lines the device has streamed.
C8_CalibrationRecordsNothing ==
    [][ /\ (calibrate /\ ser = "open") =>
               /\ session_log' =
                      Append(session_log,
                             [byte |-> Some("r"), mode |-> "calibration",
                              movement |-> selected_movement,
                              side |-> selected_side])
               /\ UNCHANGED << entries, canvases, final_log >>
        /\ (Tick /\ serial_read_mode = "calibration") =>
               UNCHANGED << entries, canvases, final_log >> ]_vars

\* C8 witness: a calibration with a movement selected has run to its deadline
\* while the device streamed an ANGLE: line, and nothing was recorded
C8_Witness ==
    /\ session = 1
    /\ session_log[1].byte = Some("r")
    /\ session_log[1].movement # None
    /\ serial_read_mode = "calibration"
    /\ now - serial_read_start_time[1] >= serial_read_duration
    /\ after_queue = {}
    /\ \E i \in DOMAIN serial_full_response, v \in AngleValues :
           serial_full_response[i] = << Marker, Num(v) >>
    /\ final_log = <<>>
    /\ \A side \in Sides, i \in Indices :
           Slot(unaffected_angle_entries, affected_angle_entries, side, i)
             = None

\* C9: start and calibrate with the channel absent or not open report
\* NotConnected and change nothing else: no byte written, session fields,
\* pending ticks, slots and gauges as before.
C9_NotConnectedChangesNothing ==
    [][ (ser # "open" /\ (start_measurement \/ calibrate)) =>
          /\ last_error' = "NotConnected"
          /\ UNCHANGED << ser, in_waiting, selection, session_state, entries,
                          canvases, live_angle, now, after_queue,
                          session_log, final_log >> ]_vars

\* C9 witness: with a movement selected and no channel, a start was refused
C9_Witness ==
    /\ ser = "None"
    /\ movement_letter # None
    /\ last_error = "NotConnected"
    /\ session_log = <<>>
    /\ after_queue = {}
    /\ serial_read_start_time = None

\* C10: start with the channel open and nothing selected reports NoSelection
\* and changes nothing else; calibrate in the same state is accepted: it
\* writes r and schedules the first tick.
C10_NoSelection ==
    [][ /\ (ser = "open" /\ selected_movement = None /\ start_measurement) =>
               /\ last_error' = "NoSelection"
               /\ UNCHANGED << ser, in_waiting, selection, session_state,
                               entries, canvases, live_angle, now,
                               after_queue, session_log, final_log >>
        /\ (ser = "open" /\ selected_movement = None /\ calibrate) =>
               /\ session' = session + 1
               /\ session_log'[session'].byte = Some("r")
               /\ after_queue' = after_queue \cup {session'}
               /\ UNCHANGED last_error ]_vars

\* C10 witness: connected, nothing selected: a start was refused with
\* NoSelection and a calibrate then went ahead
C10_Witness ==
    /\ ser = "open"
    /\ selected_movement = None
    /\ last_error = "NoSelection"
    /\ session = 1
    /\ session_log[1] = [byte |-> Some("r"), mode |-> "calibration",
                         movement |-> None, side |-> None]
    /\ after_queue = {1}

\* a measurement (not a calibration) has been started before
MeasurementStarted ==
    \E i \in DOMAIN session_log : session_log[i].mode = "measurement"
\* the record of the last measurement started
LastMeasurement ==
    session_log[CHOOSE i \in DOMAIN session_log :
                    /\ session_log[i].mode = "measurement"
                    /\ \A j \in DOMAIN session_log :
                           session_log[j].mode = "measurement" => j <= i]

\* C11 (as claimed): with the channel open, redo fails with NoPriorMovement
\* (no byte written, no session started) whenever no measurement has been
\* started yet, also when a movement is selected but was never measured;
\* otherwise it starts a session for the movement and side of the measurement
\* started last, even if the selection has changed since.
C11_RedoRepeatsLastMeasurement ==
    [][ (redo_last_measurement /\ ser = "open") =>
          IF ~MeasurementStarted
          THEN /\ last_error' = "NoPriorMovement"
               /\ UNCHANGED << session_log, session_state, after_queue >>
          ELSE /\ Len(session_log') = Len(session_log) + 1
               /\ session_log'[Len(session_log')].movement
                      = LastMeasurement.movement
               /\ session_log'[Len(session_log')].side = LastMeasurement.side
      ]_vars

\* the number of a line that is ANGLE: followed by a number (None: any
\* other line)
TaggedValue(line) ==
    IF Len(line) = 2 /\ line[1].t = "marker" /\ line[2].t = "num"
    THEN Some(line[2].v) ELSE None

\* C12: the angle found by finalize is the number of the line nearest the end
\* of the buffer that holds ANGLE: followed by a parseable number, whatever
\* junk, empty, bare-number and ANGLE:<junk> lines surround it; a value that
\* is returned is the number of such a line, never a bare number.
C12_LastTaggedLineWins ==
    \A k \in DOMAIN final_log :
        LET buf == serial_full_response
            r == final_log[k].angle
        IN /\ \A i \in DOMAIN buf :
                  ( /\ TaggedValue(buf[i]) # None
                    /\ \A j \in (i + 1) .. Len(buf) :
                           TaggedValue(buf[j]) = None )
                  => r = TaggedValue(buf[i])
           /\ r # None => \E i \in DOMAIN buf : r = TaggedValue(buf[i])

\* junk, ANGLE:12.0, ANGLE:42.37 has been finalized: 42.37 was found
C12_Witness ==
    /\ final_log # <<>>
    /\ serial_full_response
           = << <<Junk>>, <<Marker, Num(1200)>>, <<Marker, Num(4237)>> >>
    /\ final_log[1].angle = Some(4237)

\* the lines of a buffer that contain ANGLE:
MarkedLines(buf) ==
    { i \in DOMAIN buf : \E k \in DOMAIN buf[i] : buf[i][k].t = "marker" }

\* C13 (as claimed): finalize finds no angle, and ends with NoAngleData, if no
\* line contains ANGLE: or if the last line containing ANGLE: has a suffix
\* that is no number.
C13_LastMarkedLineDecides ==
    \A k \in DOMAIN final_log :
        LET buf == serial_full_response
            marked == MarkedLines(buf)
        IN ( \/ marked = {}
             \/ \E i \in marked :
                    /\ \A j \in marked : j <= i
                    /\ TaggedValue(buf[i]) = None )
           => /\ final_log[k].angle = None
              /\ last_error = "NoAngleData"

\* C13 (amended): finalize finds no angle exactly if no line is ANGLE:
\* followed by a parseable number (a line ANGLE:<junk> is passed over and the
\* scan goes on to the earlier lines); it then ends with NoAngleData and
\* every slot is as it was.
C13_NoneIffNoParseableLine ==
    \A k \in DOMAIN final_log :
        LET buf == serial_full_response
        IN /\ final_log[k].angle = None
                <=> \A i \in DOMAIN buf : TaggedValue(buf[i]) = None
           /\ final_log[k].angle = None
                => /\ last_error = "NoAngleData"
                   /\ \A side \in Sides, i \in Indices :
                          Slot(unaffected_angle_entries,
                               affected_angle_entries, side, i) = None

\* a buffer whose only marked line is ANGLE:<junk>, after a bare number, has
\* been finalized with no angle
C13_Witness ==
    /\ final_log # <<>>
    /\ serial_full_response = << <<Num(9350)>>, <<Marker, Junk>>, <<Junk>> >>
    /\ final_log[1].angle = None
    /\ last_error = "NoAngleData"

\* the inbound lines that are a bare number
BareLines(buf) ==
    { i \in DOMAIN buf : Len(buf[i]) = 1 /\ buf[i][1].t = "num" }
\* the live angle after the inbound lines: the last bare number, if any
LiveExpected ==
    IF BareLines(in_waiting) = {} THEN live_angle
    ELSE LET i == CHOOSE i \in BareLines(in_waiting) :
                      \A j \in BareLines(in_waiting) : j <= i
         IN Some(in_waiting[i][1].v)

\* C14: a polling tick appends every inbound line to the buffer, whatever
\* the line is, and drains them all; the lines that are no bare number
\* (empty, junk, ANGLE:-tagged) change no live value and stop nothing: the
\* live angle is the last bare number among the lines, the tick is
\* rescheduled before the deadline and runs finalize at the deadline.
C14_PollingSkipsNonNumbers ==
    [][ Tick =>
          /\ serial_full_response' = serial_full_response \o in_waiting
          /\ in_waiting' = <<>>
          /\ IF now - serial_read_start_time[1] < serial_read_duration
             THEN /\ after_queue' = after_queue
                  /\ live_angle' = LiveExpected
                  /\ ~FinalizeRan
             ELSE /\ FinalizeRan
                  /\ live_angle' = IF FinalAngle # None THEN FinalAngle
                                   ELSE LiveExpected
      ]_vars

\* a tick has read junk, an empty line and then 93.5 before the deadline:
\* 93.5 is shown and the tick is pending again
C14_Witness ==
    /\ serial_full_response = << <<Junk>>, <<>>, <<Num(9350)>> >>
    /\ in_waiting = <<>>
    /\ live_angle = Some(9350)
    /\ after_queue = {1}
    /\ final_log = <<>>

\* the Entry of the selected movement and side
SelectedSlot ==
    Slot(unaffected_angle_entries, affected_angle_entries,
         selected_side[1], selected_movement[1])

\* C18 (as claimed): after a finalize that found the angle v, the slot holds
\* exactly v and v is what the display was given.
C18_StoredValueIsExact ==
    \A k \in DOMAIN final_log :
        final_log[k].angle # None
        => /\ SelectedSlot # None
           /\ safe_float(SelectedSlot) = final_log[k].angle[1]
           /\ live_angle = final_log[k].angle

\* C18 (amended): after a finalize that found the angle v, the slot holds v
\* printed with one decimal (the tenth nearest to v) and the display was
\* given v itself; no range is applied: a negative v and a v above 180 are
\* stored and shown like any other.
C18_StoredValueIsRounded ==
    \A k \in DOMAIN final_log :
        final_log[k].angle # None
        => /\ SelectedSlot # None
           /\ safe_float(SelectedSlot) - final_log[k].angle[1] \in -5 .. 5
           /\ live_angle = final_log[k].angle

\* ANGLE:185.6 has been finalized: the slot holds 185.6
C18_Witness ==
    /\ final_log # <<>>
    /\ final_log[1].angle = Some(18560)
    /\ SelectedSlot = Some(1856)
    /\ live_angle = Some(18560)

\* the number in a slot, hundredths of a degree; unset counts as 0
SlotValue(text) == IF text = <<>> THEN 0 ELSE 10 * text[1]

\* the four ROM values of the claim, from the eight slots of one side
RomOfSlots(s) ==
    << SlotValue(s[0]) + SlotValue(s[1]), SlotValue(s[2]) + SlotValue(s[3]),
       (SlotValue(s[4]) + SlotValue(s[5])) \div 2,
       SlotValue(s[6]) + SlotValue(s[7]) >>

\* C15: for every list of eight slots, compute gives wrist = s0 + s1,
\* forearm = s2 + s3, elbow = (s4 + s5) / 2, wrist_deviation = s6 + s7 with
\* an unset slot counted as 0 (30, 40, 10, 20, 60, 80, 5, 15 gives 70, 30,
\* 70, 20); the result of a side is a function of that side's slots alone,
\* and computing it changes no slot: after the ROM refresh of a finalize each
\* side's gauges show these values of the side's own slots, and every slot
\* but the one the finalize wrote is as it was drawn.
C15_RomFormulas ==
    /\ LET r == calculate_rom_side(ExampleEntries)
       IN << r.wrist, r.forearm, r.elbow, r.wrist_deviation >>
              = << 7000, 3000, 7000, 2000 >>
    /\ final_log # <<>>
       => /\ \A k \in 0 .. 3 :
                 /\ unaffected_rom_canvases[k]
                        = RomOfSlots(unaffected_angle_entries)[k + 1]
                 /\ affected_rom_canvases[k]
                        = RomOfSlots(affected_angle_entries)[k + 1]
          /\ unaffected_angle_entries \in EntryLists
          /\ \A i \in Indices \ {6} :
                 affected_angle_entries[i] \in { None, ExampleEntries[i] }

\* the ROM refresh has drawn 70, 30, 70, 20 for the example slots of the
\* unaffected side, beside an affected side with one slot set
C15_Witness ==
    /\ final_log # <<>>
    /\ unaffected_angle_entries = ExampleEntries
    /\ unaffected_rom_canvases = [k \in 0 .. 3 |->
                                     << 7000, 3000, 7000, 2000 >>[k + 1]]
    /\ affected_angle_entries = [i \in Indices |->
                                    IF i = 6 THEN Some(424) ELSE None]
    /\ affected_rom_canvases[3] = 4240

\* C16 (as claimed): the ROM values shown for a side are always the ones
\* computed from that side's eight slots as they are: after every operation
\* each gauge shows compute of the current slots.
C16_RomDerivedFromSlots ==
    \A k \in 0 .. 3 :
        /\ unaffected_rom_canvases[k]
               = RomOfSlots(unaffected_angle_entries)[k + 1]
        /\ affected_rom_canvases[k]
               = RomOfSlots(affected_angle_entries)[k + 1]

\* the command byte of each movement index 0..7, as the claim lists them
CommandBytes == << "f", "e", "s", "p", "x", "y", "z", "z" >>

\* this step wrote a command byte
ByteWritten == session_log' # session_log

\* C17: every accepted start (channel open, movement and side selected) and
\* every accepted calibrate writes exactly one command byte: the byte of the
\* selected movement index (0..7 -> f, e, s, p, x, y, z, z) for a start, r
\* for a calibrate.  The lines waiting in the inbound buffer are discarded,
\* and the start time (now), an empty buffer and the mode are in place, with
\* the session's tick pending and no finalize run, when the step is over.
C17_OneMappedByte ==
    [][ /\ ( /\ ser = "open"
             /\ \/ calibrate
                \/ /\ start_measurement
                   /\ movement_letter # None
                   /\ selected_movement # None
                   /\ selected_side # None )
           => ByteWritten
        /\ ByteWritten
           => /\ Len(session_log') = Len(session_log) + 1
              /\ SubSeq(session_log', 1, Len(session_log)) = session_log
              /\ LET rec == session_log'[Len(session_log')]
                 IN /\ rec.byte = IF rec.mode = "measurement"
                                  THEN Some(CommandBytes[selected_movement[1] + 1])
                                  ELSE Some("r")
                    /\ rec.mode = "measurement" => start_measurement
                    /\ rec.mode = "calibration" => calibrate
                    /\ serial_read_mode' = rec.mode
              /\ in_waiting' = <<>>
              /\ serial_full_response' = <<>>
              /\ serial_read_start_time' = Some(now)
              /\ after_queue' = after_queue \cup { Len(session_log') }
              /\ ~FinalizeRan
      ]_vars

\* a measurement of Ulnar Deviation (index 7) has just been started with
\* byte z, its tick pending
C17_Witness ==
    /\ Len(session_log) = 1
    /\ session_log[1].byte = Some("z")
    /\ session_log[1].movement = Some(7)
    /\ serial_read_mode = "measurement"
    /\ serial_read_start_time = Some(now)
    /\ serial_full_response = <<>>
    /\ after_queue = {1}

\* C19: clear-all leaves the connection and the session in flight alone: it
\* writes no byte, neither opens nor closes the channel, drops no inbound
\* line, and changes neither the start time, the buffer, the mode, the
\* selection nor the pending ticks; and every finalize that finds an angle,
\* so also the one of a session that a clear-all fell into, writes the
\* selected slot.
C19_ClearAllKeepsSession ==
    [][ /\ clear_all_measurements
           => /\ UNCHANGED << ser, in_waiting, session_log, final_log,
                              serial_read_start_time, serial_full_response,
                              serial_read_mode, movement_letter,
                              selected_movement, selected_side, after_queue,
                              now >>
        /\ (FinalizeRan /\ FinalAngle # None)
           => LET slot == Slot(unaffected_angle_entries',
                               affected_angle_entries',
                               selected_side[1], selected_movement[1])
              IN /\ slot # None
                 /\ safe_float(slot) - FinalAngle[1] \in -5 .. 5
      ]_vars

\* clear-all fell into a running measurement: the session has read 93.5, the
\* live canvas was reset to 0 after that, and the session's tick is pending
\* with the buffer and the start time as they were
C19_Witness ==
    /\ session = 1
    /\ serial_read_mode = "measurement"
    /\ serial_full_response = << <<Num(9350)>> >>
    /\ live_angle = Some(0)
    /\ after_queue = {1}
    /\ serial_read_start_time # None
    /\ final_log = <<>>

\* C20: a slot goes from unset to set, or from one value to another, only by
\* a finalize that found an angle, which leaves in the selected slot that
\* angle alone (printed with one decimal), not a sum with what the slot held;
\* and a slot that is set becomes unset only by clear-all.
C20_SlotLifecycle ==
    [][ \A side \in Sides, i \in Indices :
          LET old == Slot(unaffected_angle_entries, affected_angle_entries,
                          side, i)
              new == Slot(unaffected_angle_entries', affected_angle_entries',
                          side, i)
          IN /\ (old # None /\ new = None) => clear_all_measurements
             /\ (new # None /\ new # old)
                => /\ FinalizeRan
                   /\ FinalAngle # None
                   /\ selected_side = Some(side)
                   /\ selected_movement = Some(i)
                   /\ safe_float(new) - FinalAngle[1] \in -5 .. 5
      ]_vars

\* Elbow Flexion, unaffected side, held 30.0 and has been measured again:
\* the slot holds 42.4, the newest value
C20_Witness ==
    /\ final_log # <<>>
    /\ final_log[Len(final_log)].angle = Some(4237)
    /\ selected_movement = Some(4)
    /\ selected_side = Some("unaffected")
    /\ unaffected_angle_entries[4] = Some(424)

\* the lines the program holds or has yet to read: the response text
\* followed by the inbound buffer
Pipeline == serial_full_response \o in_waiting
PipelineAfter == serial_full_response' \o in_waiting'

\* the number of the last line of a text that is ANGLE: followed by a number
LastTaggedValue(buf) ==
    LET tagged == { i \in DOMAIN buf : TaggedValue(buf[i]) # None }
    IN IF tagged = {} THEN None
       ELSE TaggedValue(buf[CHOOSE i \in tagged : \A j \in tagged : j <= i])

\* C21: a start or calibrate begins with a fresh buffer.  The step that
\* writes the command byte leaves the response text and the inbound buffer
\* empty; until the next command byte the lines held grow only by a line the
\* device sends (a reconnect drops the unread ones); and finalize parses the
\* response text so built: lines of an earlier session and lines pending
\* before the start are never part of it.
C21_FreshBuffer ==
    [][ /\ ByteWritten
           => /\ serial_full_response' = <<>>
              /\ in_waiting' = <<>>
        /\ ~ByteWritten
           => \/ PipelineAfter = Pipeline
              \/ \E line \in DeviceLines : PipelineAfter = Append(Pipeline, line)
              \/ /\ Connect
                 /\ PipelineAfter = serial_full_response
        /\ FinalizeRan
           => /\ serial_full_response' = Pipeline
              /\ FinalAngle = LastTaggedValue(Pipeline)
      ]_vars

\* a first measurement read ANGLE:42.37 and recorded 42.4; a second one, in
\* which the device sent nothing, ended with no angle: the first text was
\* not parsed again
C21_Witness ==
    /\ Len(final_log) = 2
    /\ final_log[1].angle = Some(4237)
    /\ final_log[1].session = 1
    /\ final_log[2].angle = None
    /\ final_log[2].session = 2
    /\ final_log[2].chain = 2
    /\ serial_full_response = <<>>

\* finalize has run for the session in force
SessionFinalized == \E k \in DOMAIN final_log : final_log[k].session = session

\* C22 (as claimed): a tick drains every inbound line before it tests the
\* deadline, so the finalize of a deadline tick parses the lines that were
\* waiting on that very tick too; and a line that arrives after the tick
\* that finalized the session is never read by the session: its response
\* text stays as finalize parsed it until the next command byte.
C22_DrainThenDeadline ==
    [][ /\ ( /\ Tick
             /\ serial_read_mode = "measurement"
             /\ now - serial_read_start_time[1] >= serial_read_duration )
           => /\ FinalizeRan
              /\ serial_full_response' = Pipeline
              /\ FinalAngle = LastTaggedValue(Pipeline)
        /\ (SessionFinalized /\ ~ByteWritten)
           => serial_full_response' = serial_full_response
      ]_vars

\* this step is an accepted start, redo or calibrate
AcceptedCommand ==
    /\ ser = "open"
    /\ \/ calibrate
       \/ /\ start_measurement \/ redo_last_measurement
          /\ movement_letter # None
          /\ selected_movement # None
          /\ selected_side # None

\* C23: the program never retries on its own.  A polling tick, with or
\* without finalize, writes no byte; a byte is written only by an accepted
\* start, redo or calibrate, which is a user event and writes exactly one:
\* so the bytes written are as many as the accepted calls, and after
\* NoAngleData none is sent before the next user action.
C23_NoAutomaticRetry ==
    [][ /\ (Tick \/ FinalizeRan \/ Device \/ Advance) => ~ByteWritten
        /\ ByteWritten <=> AcceptedCommand
        /\ ByteWritten
           => /\ Len(session_log') = Len(session_log) + 1
              /\ SubSeq(session_log', 1, Len(session_log)) = session_log
              /\ n_events' = n_events + 1
      ]_vars

\* a measurement has ended with NoAngleData: one byte was written, nothing
\* is pending, and time has passed since
C23_Witness ==
    /\ last_error = "NoAngleData"
    /\ Len(session_log) = 1
    /\ Len(final_log) = 1
    /\ final_log[1].angle = None
    /\ after_queue = {}
    /\ now - serial_read_start_time[1] >= serial_read_duration

\* C24 (as claimed): Radial Deviation (index 6) and Ulnar Deviation (index 7)
\* are sent as the same byte z but recorded apart: the finalize of a
\* measurement started for one of them writes the slot of that index on the
\* side it was started for, and no other slot, so never the other
\* deviation's.
C24_DeviationSlotsDistinct ==
    [][ ( /\ FinalizeRan
          /\ FinalAngle # None
          /\ StartedIdx \in {6, 7} )
        => /\ session_log[session].byte = Some("z")
           /\ Slot(unaffected_angle_entries', affected_angle_entries',
                   StartedSide, StartedIdx) # None
           /\ \A side \in Sides, i \in Indices :
                  << side, i >> # << StartedSide, StartedIdx >>
                  => Slot(unaffected_angle_entries', affected_angle_entries',
                          side, i)
                     = Slot(unaffected_angle_entries, affected_angle_entries,
                            side, i)
      ]_vars

\* C25 (as claimed): the mode in force at the deadline decides.  After a
\* calibrate that fell into a polling measurement no tick finalizes and no
\* slot is written while the calibration is in force, and the abandoned
\* measurement never finalizes; after a start that fell into a polling
\* calibration finalize runs at the new deadline for the measurement only.
\* So every finalize is run by the tick chain of a measurement that no
\* calibrate has followed, never by the chain of a calibration.
C25_ModeAtDeadlineDecides ==
    [][ /\ (Tick /\ serial_read_mode = "calibration")
           => /\ ~FinalizeRan
              /\ UNCHANGED << unaffected_angle_entries,
                              affected_angle_entries >>
        /\ FinalizeRan
           => \A j \in final_log'[Len(final_log')].chain .. session :
                  session_log[j].mode = "measurement"
      ]_vars

\* C26 (as claimed): once finalize has ended the session in force nothing is
\* polled until the next command byte: no tick is pending, and without a
\* clear-all no step appends a line to the response text, changes the live
\* angle or changes a slot, whatever the device sends.
C26_IdleAfterCompletion ==
    [][ /\ SessionFinalized' => after_queue' = {}
        /\ (SessionFinalized /\ ~ByteWritten /\ ~clear_all_measurements)
           => UNCHANGED << serial_full_response, live_angle,
                           unaffected_angle_entries, affected_angle_entries,
                           final_log >>
      ]_vars

====
